---- MODULE Spec2Model ----
(***************************************************************************)
(* The realtime synchronisation core of beads-web-ui:                      *)
(*   - BeadsRPCClient (server/rpc/client.ts): the token-keyed RPC client   *)
(*     over one daemon socket, with reconnection and per-call timeouts;    *)
(*   - MutationPoller (server/websocket/mutation-poller.ts): the polling   *)
(*     loop that asks the daemon for mutations after a cursor.             *)
(* Every handler of the event loop is one action.  Time is kept as the age *)
(* of each armed request timer, advanced by Tick.                          *)
(***************************************************************************)
EXTENDS Integers, Sequences, FiniteSets, TLC

\* ---- bounds of the model ------------------------------------------------
MaxCalls == 2
MaxSockets == 2
MaxLiveSockets == 1
MaxMutations == 2
MaxObservers == 2
MaxLines == 3
MaxBroadcasts == 2
MaxQueuedCalls == 4
MaxConnections == 2

\* ---- program constants --------------------------------------------------
RequestTimeoutMs == 30000
maxReconnectAttempts == 5
ReconnectBaseMs == 1000
ReconnectCapMs == 30000
PingIntervalMs == 30000
LivenessTimeoutMs == 60000

Calls == 1..MaxCalls
Sockets == 1..MaxSockets
MutationIds == 1..MaxMutations
Observers == 1..MaxObservers

\* The clock advances by one request timeout at a time.
TickMs == RequestTimeoutMs

\* Payloads a daemon response may carry.
Results == {"r1"}
ErrorMessages == {"daemon error"}
NotConnectedMsg == "Not connected to daemon"
RequestTimeoutMsg == "Request timeout"
ClientDisconnectedMsg == "Client disconnected"

\* RPCResponse: an id and either a result or an error message.
Responses ==
    [id : Calls, kind : {"result"}, val : Results]
        \cup [id : Calls, kind : {"error"}, val : ErrorMessages]

VARIABLES
    \* ---- BeadsRPCClient fields ----
    socket,            \* this.socket: 0 is null, else the socket it refers to
    connected,         \* this.connected
    requestId,         \* this.requestId
    pendingRequests,   \* keys of this.pendingRequests
    reconnectTimer,    \* this.reconnectTimer: 0 is null, else the delay armed (ms)
    reconnectAttempts, \* this.reconnectAttempts
    \* ---- the runtime around the client ----
    sockState,         \* each net.Socket: unused | connecting | open | destroyed | closed
    timer,             \* each call's setTimeout: none | armed | fired
    age,               \* ms since an armed request timer was set
    written,           \* ids of the requests written to a socket
    outcome,           \* each call's promise: none | pending | resolved | rejected
    settles,           \* how many times a call's resolve/reject was invoked
    \* ---- MutationPoller fields ----
    pollInterval,      \* this.pollInterval: TRUE when it holds a timer handle
    timers,            \* the interval timers set by start() and not yet cleared
    lastEventId,       \* this.lastEventId
    isPolling,         \* this.isPolling
    \* ---- the runtime around the poller ----
    polls,             \* poll() invocations suspended at await: call id -> the cursor
                       \* sent, -1 when no poll awaits that call
    daemonLog,         \* the daemon's mutation records (their ids)
    answered,          \* the getMutations requests the daemon has answered
    batchEmits,        \* per record: the 'mutations' batches that carried it
    singleEmits,       \* per record: the 'mutation' events emitted for it
    wasReset,          \* reset() has been called
    pollLog,           \* the last run of poll(): its branch and the events it emitted
    \* ---- BeadsWebSocketServer fields ----
    clients,           \* this.clients: client id -> [ws, sinceLastPing (now - lastPing, ms)]
    nextClientId,      \* this.nextClientId
    \* ---- the runtime around the hub ----
    wsState,           \* each accepted WebSocket: none | open | closing | errored | closed
    wsId,              \* the clientId bound in each connection's handlers (0: none)
    sweepIn,           \* ms until the setInterval callback of startPingInterval runs
    pingInterval,      \* this.pingInterval: TRUE while the sweep's timer is armed
    wss,               \* this.wss: TRUE while the accept listener is attached
    lastSend,          \* what the last step sent: the message, the sockets reached, the copies
    \* ---- the daemon's end of the stream ----
    daemonUp,          \* the daemon listens on the socket path
    stream,            \* the bytes the daemon writes on the connection
    delivered,         \* how many of them have reached 'data' events
    connNo,            \* the number of the connection the stream is written on
    \* ---- BeadsRPCClient framing ----
    buffer,            \* this.buffer
    handled,           \* the responses passed to handleResponse, in order
    \* ---- the observers' end of the WebSocket connections ----
    sent,              \* how many times broadcast() has been called
    out,               \* each socket's frames written by ws.send and not yet received
    inbox,             \* each observer's frames received, in order
    \* ---- BeadsRPCClient, the queued variant ----
    qConnected,        \* this.socket && this.connected
    pendingRequest,    \* this.pendingRequest: the call holding the slot, 0 for null
    requestQueue,      \* this.requestQueue: the calls waiting, in order
    qTimers,           \* the calls whose request timeout is armed
    qAccepted,         \* how many calls request() has accepted; they are numbered in order
    qWritten,          \* the calls whose request was written to the socket, in order
    qInFlight,         \* the written requests the daemon has yet to answer
    qOutcome,          \* each call's promise: none | pending | resolved | rejected
    qAnswer,           \* the request whose response settled each call, 0 for none
    \* ---- startServer ----
    startup            \* awaiting initializeRPCClient | connected (rpcConnected = true)
                       \* | started (start() called) | degraded (rpcConnected = false)

clientVars ==
    <<socket, connected, requestId, pendingRequests, reconnectTimer,
      reconnectAttempts, sockState, timer, age, written, outcome, settles>>
pollerVars ==
    <<pollInterval, timers, lastEventId, isPolling, polls, daemonLog, answered,
      batchEmits, singleEmits, wasReset, pollLog>>
hubVars == <<clients, nextClientId, wsState, wsId, sweepIn, pingInterval, wss, lastSend>>
wireVars == <<daemonUp, stream, delivered, connNo, buffer, handled>>
obsVars == <<sent, out, inbox>>
queuedVars ==
    <<qConnected, pendingRequest, requestQueue, qTimers, qAccepted, qWritten,
      qInFlight, qOutcome, qAnswer>>
serverVars == <<startup>>
vars == <<clientVars, pollerVars, hubVars, wireVars, obsVars, queuedVars, serverVars>>

\* ---- helpers --------------------------------------------------------------
Unsettled == [kind |-> "pending", val |-> ""]
NoCall == [kind |-> "none", val |-> ""]

Min(a, b) == IF a < b THEN a ELSE b

RECURSIVE Pow2(_)
Pow2(n) == IF n = 0 THEN 1 ELSE 2 * Pow2(n - 1)

\* A promise keeps its first settlement; later resolve/reject calls are no-ops.
SettleWith(o, c, kind, val) ==
    [o EXCEPT ![c] = IF @.kind = "pending" THEN [kind |-> kind, val |-> val] ELSE @]

\* A slot can hold a new socket when no live socket occupies it (a closed one
\* is only still referenced by this.socket, which the new socket replaces).
FreeSlots == {s \in Sockets : sockState[s] \in {"unused", "closed"}}

\* A closed socket is forgotten once this.socket no longer refers to it.
Forget(st, keep) ==
    [s \in Sockets |-> IF st[s] = "closed" /\ s # keep THEN "unused" ELSE st[s]]

\* ---- BeadsRPCClient --------------------------------------------------------

ReconnectDelayFromOne(n) == Min(ReconnectBaseMs * Pow2(n - 1), ReconnectCapMs)

\* attemptReconnect(): the delay armed once reconnectAttempts has become n.
ReconnectDelay(n) == Min(ReconnectBaseMs * Pow2(n), ReconnectCapMs)

attemptReconnectOneMore ==
    IF reconnectTimer # 0
        THEN <<reconnectTimer, reconnectAttempts>>
    ELSE IF reconnectAttempts > maxReconnectAttempts
        THEN <<reconnectTimer, reconnectAttempts>>
    ELSE <<ReconnectDelay(reconnectAttempts + 1), reconnectAttempts + 1>>

\* attemptReconnect(): the new <<reconnectTimer, reconnectAttempts>>.
attemptReconnect ==
    IF reconnectTimer # 0
        THEN <<reconnectTimer, reconnectAttempts>>
    ELSE IF reconnectAttempts >= maxReconnectAttempts
        THEN <<reconnectTimer, reconnectAttempts>>
    ELSE <<ReconnectDelay(reconnectAttempts + 1), reconnectAttempts + 1>>

connectNever == UNCHANGED <<socket, sockState>>

connectAlwaysOpens == FALSE

\* connect(): the early return, if (this.socket && this.connected).
connectAlreadyConnected == socket # 0 /\ connected

\* connect(): what has become of its promise when the call returns.
connectOutcome == IF connectAlreadyConnected THEN "resolved" ELSE "pending"

\* connect(): a no-op when connected, else a new socket replaces this.socket.
connect ==
    IF connectAlreadyConnected
        THEN UNCHANGED <<socket, sockState>>
        ELSE \E s \in FreeSlots :
                /\ s = CHOOSE t \in FreeSlots : \A u \in FreeSlots : t <= u
                /\ socket' = s
                /\ sockState' = Forget([sockState EXCEPT ![s] = "connecting"], s)

CanConnect == (socket # 0 /\ connected) \/ FreeSlots # {}

\* The sockets whose handlers can still run.
LiveSockets == {s \in Sockets : sockState[s] \in {"connecting", "open", "destroyed"}}

\* The bound on live sockets under which the call-level specifications run.
WithinLiveBound ==
    (socket # 0 /\ connected) \/ Cardinality(LiveSockets) < MaxLiveSockets

\* An explicit connect() call.
Connect ==
    /\ CanConnect
    /\ connect
    /\ UNCHANGED <<connected, requestId, pendingRequests, reconnectTimer,
                   reconnectAttempts, timer, age, written, outcome, settles>>

\* The reconnect timer's callback; it may run at any time once armed.
ReconnectTimerFire ==
    /\ reconnectTimer # 0
    /\ CanConnect
    /\ reconnectTimer' = 0
    /\ connect
    /\ UNCHANGED <<connected, requestId, pendingRequests, reconnectAttempts,
                   timer, age, written, outcome, settles>>

\* The socket's 'connect' handler.
SocketConnect(s) ==
    /\ sockState[s] = "connecting"
    /\ sockState' = [sockState EXCEPT ![s] = "open"]
    /\ connected' = TRUE
    /\ reconnectAttempts' = 0
    /\ UNCHANGED <<socket, requestId, pendingRequests, reconnectTimer, timer,
                   age, written, outcome, settles>>

\* The socket's 'close' handler (a failed attempt, a peer close, or the close
\* that follows destroy()).  It leaves the pending calls alone.
SocketClose(s) ==
    /\ sockState[s] \in {"connecting", "open", "destroyed"}
    /\ sockState' = Forget([sockState EXCEPT ![s] = "closed"], socket)
    /\ connected' = FALSE
    /\ reconnectTimer' = attemptReconnect[1]
    /\ reconnectAttempts' = attemptReconnect[2]
    /\ UNCHANGED <<socket, requestId, pendingRequests, timer, age, written,
                   outcome, settles>>

\* Variant: the response settles the oldest pending call, whatever its id.
handleResponseOldest(r) ==
    IF pendingRequests # {}
        THEN LET c == CHOOSE d \in pendingRequests : \A e \in pendingRequests : d <= e
             IN  <<pendingRequests \ {c},
                   SettleWith(outcome, c,
                              IF r.kind = "error" THEN "rejected" ELSE "resolved", r.val),
                   [settles EXCEPT ![c] = @ + 1]>>
        ELSE <<pendingRequests, outcome, settles>>

\* Variant: the entry is not deleted before the call is settled.
handleResponseKeepsEntry(r) ==
    IF r.id \in pendingRequests
        THEN <<pendingRequests,
               SettleWith(outcome, r.id,
                          IF r.kind = "error" THEN "rejected" ELSE "resolved", r.val),
               [settles EXCEPT ![r.id] = @ + 1]>>
        ELSE <<pendingRequests, outcome, settles>>

\* handleResponse(response): the new <<pendingRequests, outcome, settles>>.
handleResponse(r) ==
    IF r.id \in pendingRequests
        THEN <<pendingRequests \ {r.id},
               SettleWith(outcome, r.id,
                          IF r.kind = "error" THEN "rejected" ELSE "resolved", r.val),
               [settles EXCEPT ![r.id] = @ + 1]>>
        ELSE <<pendingRequests, outcome, settles>>

\* The socket's 'data' handler, for a chunk holding one complete line.
SocketData(s, r) ==
    /\ sockState[s] = "open"
    /\ pendingRequests' = handleResponse(r)[1]
    /\ outcome' = handleResponse(r)[2]
    /\ settles' = handleResponse(r)[3]
    /\ UNCHANGED <<socket, connected, requestId, reconnectTimer,
                   reconnectAttempts, sockState, timer, age, written>>

\* Variant: only the socket reference is tested, not the connected flag.
requestAcceptedSocketOnly == socket # 0

\* request(): whether the call is accepted.
requestAccepted == socket # 0 /\ connected

\* request(): the error it throws before doing anything, "" when it throws none.
requestThrows == IF requestAccepted THEN "" ELSE NotConnectedMsg

\* request() that throws: nothing else happens.
RequestRejected ==
    /\ requestThrows # ""
    /\ UNCHANGED clientVars

\* request() that does not throw: a new id, a pending entry, a write, a timer.
request ==
    /\ requestThrows = ""
    /\ requestId < MaxCalls
    /\ requestId' = requestId + 1
    /\ pendingRequests' = pendingRequests \cup {requestId + 1}
    /\ written' = written \cup {requestId + 1}
    /\ timer' = [timer EXCEPT ![requestId + 1] = "armed"]
    /\ age' = [age EXCEPT ![requestId + 1] = 0]
    /\ outcome' = [outcome EXCEPT ![requestId + 1] = Unsettled]
    /\ UNCHANGED <<socket, connected, reconnectTimer, reconnectAttempts,
                   sockState, settles>>

Request == request

\* Variant: the callback rejects without deleting the entry.
requestTimeoutKeepsEntry(c) ==
    IF c \in pendingRequests
        THEN <<pendingRequests,
               SettleWith(outcome, c, "rejected", RequestTimeoutMsg),
               [settles EXCEPT ![c] = @ + 1]>>
        ELSE <<pendingRequests, outcome, settles>>

\* Variant: the callback clears the whole map.
requestTimeoutClearsAll(c) ==
    IF c \in pendingRequests
        THEN <<{},
               SettleWith(outcome, c, "rejected", RequestTimeoutMsg),
               [settles EXCEPT ![c] = @ + 1]>>
        ELSE <<pendingRequests, outcome, settles>>

\* The timeout callback of call c: the new <<pendingRequests, outcome, settles>>.
requestTimeout(c) ==
    IF c \in pendingRequests
        THEN <<pendingRequests \ {c},
               SettleWith(outcome, c, "rejected", RequestTimeoutMsg),
               [settles EXCEPT ![c] = @ + 1]>>
        ELSE <<pendingRequests, outcome, settles>>

\* When the timer of a call is due.
TimerDue(c) == timer[c] = "armed" /\ age[c] >= RequestTimeoutMs

TimerFire(c) ==
    /\ TimerDue(c)
    /\ timer' = [timer EXCEPT ![c] = "fired"]
    /\ age' = [age EXCEPT ![c] = 0]
    /\ pendingRequests' = requestTimeout(c)[1]
    /\ outcome' = requestTimeout(c)[2]
    /\ settles' = requestTimeout(c)[3]
    /\ UNCHANGED <<socket, connected, requestId, reconnectTimer,
                   reconnectAttempts, sockState, written>>

\* disconnect(): the pending map is cleared; no call is resolved or rejected.
Disconnect ==
    /\ reconnectTimer' = 0
    /\ sockState' =
            Forget(IF socket # 0 /\ sockState[socket] \in {"connecting", "open"}
                       THEN [sockState EXCEPT ![socket] = "destroyed"]
                       ELSE sockState, 0)
    /\ socket' = 0
    /\ connected' = FALSE
    /\ pendingRequests' = {}
    /\ UNCHANGED <<requestId, reconnectAttempts, timer, age, written, outcome,
                   settles>>

\* Time passes: every armed request timer ages, none past its deadline.
Tick ==
    /\ \E c \in Calls : timer[c] = "armed"
    /\ \A c \in Calls : ~TimerDue(c)
    /\ age' = [c \in Calls |-> IF timer[c] = "armed" THEN age[c] + TickMs ELSE age[c]]
    /\ UNCHANGED <<socket, connected, requestId, pendingRequests, reconnectTimer,
                   reconnectAttempts, sockState, timer, written, outcome, settles>>

ClientInit ==
    /\ socket = 0
    /\ connected = FALSE
    /\ requestId = 0
    /\ pendingRequests = {}
    /\ reconnectTimer = 0
    /\ reconnectAttempts = 0
    /\ sockState = [s \in Sockets |-> "unused"]
    /\ timer = [c \in Calls |-> "none"]
    /\ age = [c \in Calls |-> 0]
    /\ written = {}
    /\ outcome = [c \in Calls |-> NoCall]
    /\ settles = [c \in Calls |-> 0]

\* The daemon is up and has written nothing; the client's buffer is empty.
WireInit ==
    /\ daemonUp = TRUE
    /\ stream = <<>>
    /\ delivered = 0
    /\ connNo = 1
    /\ buffer = <<>>
    /\ handled = <<>>

PollerInit ==
    /\ pollInterval = FALSE
    /\ timers = 0
    /\ lastEventId = 0
    /\ isPolling = FALSE
    /\ polls = [c \in Calls |-> -1]
    /\ daemonLog = {}
    /\ answered = {}
    /\ batchEmits = [m \in MutationIds |-> 0]
    /\ singleEmits = [m \in MutationIds |-> 0]
    /\ wasReset = FALSE
    /\ pollLog = [step |-> "none", events |-> <<>>]

\* ---- MutationPoller --------------------------------------------------------

SetMax(S) == CHOOSE m \in S : \A n \in S : n <= m

SetMin(S) == CHOOSE m \in S : \A n \in S : m <= n

\* The array the daemon returns for a set of records: ascending ids.
RECURSIVE InOrder(_)
InOrder(S) == IF S = {} THEN <<>> ELSE <<SetMin(S)>> \o InOrder(S \ {SetMin(S)})

\* What one run of poll() did: the branch it took and the events it emitted.
PollRecord(step, events) == [step |-> step, events |-> events]

\* The polls whose getMutations request is still unanswered.
InFlightPolls == {c \in Calls : polls[c] # -1}

pollSkipsNever == FALSE

\* poll(): the early return when the client is not connected.
pollSkips == ~connected

\* poll() up to its await: skipped when the client is not connected; a request
\* that throws is caught; else the poll waits for the call's settlement.
pollIssues == ~pollSkips /\ requestThrows = ""

poll ==
    IF pollSkips
        THEN /\ UNCHANGED <<clientVars, polls>>
             /\ pollLog' = PollRecord("skipped", <<>>)
        ELSE IF requestThrows # ""
            THEN /\ UNCHANGED <<clientVars, polls>>
                 /\ pollLog' = PollRecord("failed", <<>>)
            ELSE /\ request
                 /\ polls' = [polls EXCEPT ![requestId + 1] = lastEventId]
                 /\ pollLog' = PollRecord("issued", <<>>)

\* The bound on calls lets a poll run only while ids are left.
CanPoll == pollIssues => requestId < MaxCalls

pollerStartArmsAgain == TRUE

\* start(): the early return when the poller is already running.
pollerStartArms == ~isPolling

\* start(): isPolling is set, poll() runs, and setInterval's handle is stored.
PollerStart ==
    /\ pollerStartArms => CanPoll
    /\ IF pollerStartArms
           THEN /\ isPolling' = TRUE
                /\ poll
                /\ pollInterval' = TRUE
                /\ timers' = timers + 1
           ELSE UNCHANGED <<clientVars, isPolling, polls, pollInterval, timers, pollLog>>
    /\ UNCHANGED <<lastEventId, daemonLog, answered, batchEmits, singleEmits,
                   wasReset>>

\* The setInterval callback.
IntervalFire ==
    /\ timers > 0
    /\ CanPoll
    /\ poll
    /\ UNCHANGED <<pollInterval, timers, lastEventId, isPolling, daemonLog, answered,
                   batchEmits, singleEmits, wasReset>>

pollCursorFirst(batch) ==
    IF batch # {} /\ SetMin(batch) > lastEventId THEN SetMin(batch) ELSE lastEventId

\* poll() after its await resolved with a batch of records: the new cursor.
pollCursor(batch) ==
    IF batch # {} /\ SetMax(batch) > lastEventId THEN SetMax(batch) ELSE lastEventId

\* poll() after its await resolved: the records it emits.
pollEmits(batch) == batch

\* An event as a listener sees it: its name, its records, and the cursor
\* getLastEventId() returns while the listener runs.
PollEvent(type, data, cursor) == [type |-> type, data |-> data, cursor |-> cursor]

pollEventsBeforeCursor(batch) ==
    IF batch = {} THEN <<>>
    ELSE <<PollEvent("mutations", InOrder(batch), lastEventId)>>
         \o [i \in 1..Cardinality(batch) |->
                PollEvent("mutation", <<InOrder(batch)[i]>>, lastEventId)]

\* poll() after its await resolved: the cursor moves, then 'mutations' is
\* emitted with the array, then 'mutation' for each element of the array.
pollEvents(batch) ==
    IF batch = {} THEN <<>>
    ELSE <<PollEvent("mutations", InOrder(batch), pollCursor(batch))>>
         \o [i \in 1..Cardinality(batch) |->
                PollEvent("mutation", <<InOrder(batch)[i]>>, pollCursor(batch))]

pollCatchStops == <<FALSE, FALSE>>

\* poll(): the catch block logs the error; isPolling and pollInterval after it.
pollCatch == <<isPolling, pollInterval>>

pollerStopLeaks == timers

\* stop(): clearInterval cancels the timer whose handle is held.
pollerStopClears == IF pollInterval THEN timers - 1 ELSE timers

\* stop()
PollerStop ==
    /\ timers' = pollerStopClears
    /\ pollInterval' = FALSE
    /\ isPolling' = FALSE
    /\ UNCHANGED <<clientVars, lastEventId, polls, daemonLog, answered,
                   batchEmits, singleEmits, wasReset, pollLog>>

\* reset()
PollerReset ==
    /\ lastEventId' = 0
    /\ wasReset' = TRUE
    /\ UNCHANGED <<clientVars, pollInterval, timers, isPolling, polls, daemonLog,
                   answered, batchEmits, singleEmits, pollLog>>

\* ---- the daemon --------------------------------------------------------------

\* The daemon records a mutation; ids grow by one.
DaemonMutate ==
    /\ Cardinality(daemonLog) < MaxMutations
    /\ daemonLog' = daemonLog \cup {Cardinality(daemonLog) + 1}
    /\ UNCHANGED <<clientVars, pollInterval, timers, lastEventId, isPolling, polls,
                   answered, batchEmits, singleEmits, wasReset, pollLog>>

\* The daemon's answer to getMutations(since): the records after since.
MutationsSince(since) == {m \in daemonLog : m > since}

\* The daemon answers request c, once, on an open socket; the client handles
\* the response and the poll awaiting the call resumes.
DaemonAnswer(s, c, ok) ==
    /\ c \in written \ answered
    /\ polls[c] # -1
    /\ answered' = answered \cup {c}
    /\ LET batch == MutationsSince(polls[c])
           r == IF ok THEN [id |-> c, kind |-> "result", val |-> batch]
                      ELSE [id |-> c, kind |-> "error", val |-> "daemon error"]
           resumes == c \in pendingRequests
           emits == IF resumes /\ ok THEN pollEmits(batch) ELSE {}
       IN  /\ SocketData(s, r)
           /\ polls' = IF resumes THEN [polls EXCEPT ![c] = -1] ELSE polls
           /\ lastEventId' = IF resumes /\ ok THEN pollCursor(batch) ELSE lastEventId
           /\ batchEmits' =
                [m \in MutationIds |-> batchEmits[m] + (IF m \in emits THEN 1 ELSE 0)]
           /\ singleEmits' =
                [m \in MutationIds |-> singleEmits[m] + (IF m \in emits THEN 1 ELSE 0)]
           /\ pollLog' =
                IF ~resumes THEN pollLog
                ELSE IF ~ok THEN PollRecord("failed", <<>>)
                ELSE IF batch = {} THEN PollRecord("empty", <<>>)
                ELSE PollRecord("emitted", pollEvents(batch))
           /\ isPolling' = IF resumes /\ ~ok THEN pollCatch[1] ELSE isPolling
           /\ pollInterval' = IF resumes /\ ~ok THEN pollCatch[2] ELSE pollInterval
    /\ UNCHANGED <<timers, daemonLog, wasReset>>

\* The request timer of a poll's call fires: the rejection is caught and logged.
PollTimerFire(c) ==
    /\ TimerFire(c)
    /\ polls' = IF c \in pendingRequests THEN [polls EXCEPT ![c] = -1] ELSE polls
    /\ pollLog' = IF c \in pendingRequests THEN PollRecord("failed", <<>>) ELSE pollLog
    /\ isPolling' = IF c \in pendingRequests THEN pollCatch[1] ELSE isPolling
    /\ pollInterval' = IF c \in pendingRequests THEN pollCatch[2] ELSE pollInterval
    /\ UNCHANGED <<timers, lastEventId, daemonLog, answered, batchEmits, singleEmits,
                   wasReset>>

\* ---- BeadsWebSocketServer ---------------------------------------------------

\* The hub's clock advances by half a sweep interval at a time.
HubTickMs == PingIntervalMs \div 2

\* Inbound payloads: a pong, a message of another type, a payload that is not JSON.
InboundKinds == {"pong", "subscribe", "malformed"}

\* WebSocketMessage { type, data?, timestamp }: welcome tells the greeting's
\* data.message; data holds the ids of the mutation records carried.
Message(type, welcome, data) ==
    [type |-> type, welcome |-> welcome, data |-> data, timestamp |-> "now"]

NoSend == [msg |-> Message("none", FALSE, <<>>), to |-> {}, copies |-> 0]

\* After the constructor and initialize(): no observer, the sweep timer armed.
HubInit ==
    /\ clients = [id \in {} |-> 0]
    /\ nextClientId = 1
    /\ wsState = [k \in Observers |-> "none"]
    /\ wsId = [k \in Observers |-> 0]
    /\ sweepIn = PingIntervalMs
    /\ pingInterval = TRUE
    /\ wss = TRUE
    /\ lastSend = NoSend

\* The connections not accepted yet; they are numbered in the order of arrival.
NewSockets == {k \in Observers : wsState[k] = "none"}

\* ws.readyState === WebSocket.OPEN
wsOpen(k) == wsState[k] = "open"

\* this.clients.set(id, { id, ws, lastPing: Date.now() })
hubSet(id, k) ==
    [i \in DOMAIN clients \cup {id} |->
        IF i = id THEN [ws |-> k, sinceLastPing |-> 0] ELSE clients[i]]

\* this.clients.delete(id)
hubDelete(id) == [i \in DOMAIN clients \ {id} |-> clients[i]]

hubNewIdFromSize == Cardinality(DOMAIN clients) + 1

\* handleConnection: the number in `client-${this.nextClientId++}`.
hubNewId == nextClientId

\* sendToClient(client, message): reaches the socket when it is OPEN and
\* ws.send does not throw; an exception is caught and logged.
sendToClient(k, throws) == IF wsOpen(k) /\ ~throws THEN {k} ELSE {}

hubWelcomeConnected == Message("connected", TRUE, <<>>)

\* handleConnection: the welcome message.
hubWelcome == Message("ping", TRUE, <<>>)

\* handleConnection(ws, req)
HubAccept(throws) ==
    /\ wss
    /\ NewSockets # {}
    /\ LET k == CHOOSE n \in NewSockets : \A o \in NewSockets : n <= o
           id == hubNewId
       IN  /\ nextClientId' = nextClientId + 1
           /\ wsId' = [wsId EXCEPT ![k] = id]
           /\ wsState' = [wsState EXCEPT ![k] = "open"]
           /\ clients' = hubSet(id, k)
           /\ lastSend' = [msg |-> hubWelcome,
                           to |-> IF throws THEN {} ELSE {k},
                           copies |-> 1]
    /\ UNCHANGED <<sweepIn, pingInterval, wss>>

\* The connection's client object is the one stored in the mapping.
hubHolds(k) == wsId[k] \in DOMAIN clients /\ clients[wsId[k]].ws = k

hubRefreshesParsed(kind) == kind # "malformed"

hubRefreshesNothing(kind) == FALSE

\* handleMessage: only type 'pong' sets client.lastPing = Date.now().
hubRefreshes(kind) == kind = "pong"

\* ws.on('message'): JSON.parse and handleMessage inside try/catch.
WsMessage(k, kind) ==
    /\ wsState[k] \in {"open", "closing"}
    /\ clients' = IF hubRefreshes(kind) /\ hubHolds(k)
                      THEN [clients EXCEPT ![wsId[k]].sinceLastPing = 0]
                      ELSE clients
    /\ lastSend' = NoSend
    /\ UNCHANGED <<nextClientId, wsState, wsId, sweepIn, pingInterval, wss>>

\* The observer starts the closing handshake: readyState is CLOSING until the
\* 'close' event.
WsClosing(k) ==
    /\ wsState[k] = "open"
    /\ wsState' = [wsState EXCEPT ![k] = "closing"]
    /\ lastSend' = NoSend
    /\ UNCHANGED <<clients, nextClientId, wsId, sweepIn, pingInterval, wss>>

hubOnCloseKeeps(k) == clients

\* ws.on('close'): this.clients.delete(clientId)
hubOnClose(k) == hubDelete(wsId[k])

\* ws.on('error'): this.clients.delete(clientId)
hubOnError(k) == hubDelete(wsId[k])

\* The socket's 'error' event; the socket is closed after it.
WsError(k) ==
    /\ wsState[k] \in {"open", "closing"}
    /\ clients' = hubOnError(k)
    /\ wsState' = [wsState EXCEPT ![k] = "errored"]
    /\ lastSend' = NoSend
    /\ UNCHANGED <<nextClientId, wsId, sweepIn, pingInterval, wss>>

\* The socket's 'close' event.
WsClose(k) ==
    /\ wsState[k] \in {"open", "closing", "errored"}
    /\ clients' = hubOnClose(k)
    /\ wsState' = [wsState EXCEPT ![k] = "closed"]
    /\ lastSend' = NoSend
    /\ UNCHANGED <<nextClientId, wsId, sweepIn, pingInterval, wss>>

\* The sockets broadcast() calls send on: the clients of the mapping whose
\* socket is OPEN.
hubWritable == {k \in Observers : wsOpen(k) /\ \E id \in DOMAIN clients : clients[id].ws = k}

hubBroadcastAborts(throwers) ==
    {k \in hubWritable : \A j \in hubWritable \cap throwers : wsId[k] < wsId[j]}

\* broadcast(message): each send in its own try/catch.
hubBroadcastTo(throwers) == hubWritable \ throwers

\* One broadcast(message) call.
broadcast(message, throwers) ==
    [msg |-> message, to |-> hubBroadcastTo(throwers), copies |-> 1]

HubBroadcast(throwers) ==
    /\ lastSend' = broadcast(Message("mutation", FALSE, <<>>), throwers)
    /\ UNCHANGED <<clients, nextClientId, wsState, wsId, sweepIn, pingInterval, wss>>

hubTimedOutAtLimit(id) == clients[id].sinceLastPing >= LivenessTimeoutMs

\* startPingInterval: now - client.lastPing > timeout
hubTimedOut(id) == clients[id].sinceLastPing > LivenessTimeoutMs

\* The setInterval callback of startPingInterval.
HubSweep(throwers) ==
    /\ pingInterval
    /\ sweepIn = 0
    /\ LET old == {id \in DOMAIN clients : hubTimedOut(id)}
           kept == DOMAIN clients \ old
       IN  /\ clients' = [id \in kept |-> clients[id]]
           /\ wsState' = [k \in Observers |->
                 IF wsState[k] = "open" /\ \E id \in old : clients[id].ws = k
                     THEN "closing" ELSE wsState[k]]
           /\ lastSend' = [msg |-> Message("ping", FALSE, <<>>),
                 to |-> UNION {sendToClient(clients[id].ws, clients[id].ws \in throwers)
                                 : id \in kept},
                 copies |-> 1]
    /\ sweepIn' = PingIntervalMs
    /\ UNCHANGED <<nextClientId, wsId, pingInterval, wss>>

\* Time passes, up to the next sweep.
HubTick ==
    /\ pingInterval
    /\ sweepIn >= HubTickMs
    /\ sweepIn' = sweepIn - HubTickMs
    /\ clients' = [id \in DOMAIN clients |->
          [clients[id] EXCEPT !.sinceLastPing = @ + HubTickMs]]
    /\ lastSend' = NoSend
    /\ UNCHANGED <<nextClientId, wsState, wsId, pingInterval, wss>>

hubCloseKeeps == clients

\* close(): this.clients.clear()
hubCloseClears == [id \in {} |-> 0]

\* close(): the timer is cleared, client.ws.close() is called for every client
\* of the mapping (an OPEN socket starts its closing handshake), the mapping
\* is cleared and the accept listener is closed.
HubClose ==
    /\ pingInterval' = FALSE
    /\ wsState' = [k \in Observers |->
          IF wsState[k] = "open" /\ \E id \in DOMAIN clients : clients[id].ws = k
              THEN "closing" ELSE wsState[k]]
    /\ clients' = hubCloseClears
    /\ wss' = FALSE
    /\ lastSend' = NoSend
    /\ UNCHANGED <<nextClientId, wsId, sweepIn>>

NextHub ==
    \/ (\E throws \in BOOLEAN : HubAccept(throws) /\ UNCHANGED <<clientVars, pollerVars, wireVars, obsVars, queuedVars, serverVars>>)
    \/ (\E k \in Observers, kind \in InboundKinds : WsMessage(k, kind) /\ UNCHANGED <<clientVars, pollerVars, wireVars, obsVars, queuedVars, serverVars>>)
    \/ (\E k \in Observers : WsClosing(k) /\ UNCHANGED <<clientVars, pollerVars, wireVars, obsVars, queuedVars, serverVars>>)
    \/ (\E k \in Observers : WsError(k) /\ UNCHANGED <<clientVars, pollerVars, wireVars, obsVars, queuedVars, serverVars>>)
    \/ (\E k \in Observers : WsClose(k) /\ UNCHANGED <<clientVars, pollerVars, wireVars, obsVars, queuedVars, serverVars>>)
    \/ (\E throwers \in SUBSET Observers : HubBroadcast(throwers) /\ UNCHANGED <<clientVars, pollerVars, wireVars, obsVars, queuedVars, serverVars>>)
    \/ (\E throwers \in SUBSET Observers : HubSweep(throwers) /\ UNCHANGED <<clientVars, pollerVars, wireVars, obsVars, queuedVars, serverVars>>)
    \/ (HubTick /\ UNCHANGED <<clientVars, pollerVars, wireVars, obsVars, queuedVars, serverVars>>)
    \/ (HubClose /\ UNCHANGED <<clientVars, pollerVars, wireVars, obsVars, queuedVars, serverVars>>)

\* startServer before initializeRPCClient has settled.
ServerInit == startup = "awaiting"

\* ---- the observers' end of the WebSocket connections ---------------------------

ObsInit ==
    /\ sent = 0
    /\ out = [k \in Observers |-> <<>>]
    /\ inbox = [k \in Observers |-> <<>>]

wsSendFirst(q, frame) == <<frame>> \o q

\* ws.send(data): the frame goes on the socket behind the frames sent before.
wsSend(q, frame) == Append(q, frame)

\* The frame of this step's message on every socket the message reached.
Framed(frame) ==
    [k \in Observers |-> IF k \in lastSend'.to THEN wsSend(out[k], frame) ELSE out[k]]

\* handleConnection, the greeting being frame 0 on the new socket.
ObsAccept(throws) ==
    /\ HubAccept(throws)
    /\ out' = Framed(0)
    /\ UNCHANGED <<sent, inbox>>

\* The n-th call of broadcast(), its message being frame n.
ObsBroadcast(throwers) ==
    /\ sent < MaxBroadcasts
    /\ HubBroadcast(throwers)
    /\ sent' = sent + 1
    /\ out' = Framed(sent + 1)
    /\ UNCHANGED inbox

\* The observer's 'message' event: the oldest frame on its socket arrives.
ObsReceive(k) ==
    /\ out[k] # <<>>
    /\ inbox' = [inbox EXCEPT ![k] = Append(@, Head(out[k]))]
    /\ out' = [out EXCEPT ![k] = Tail(@)]
    /\ UNCHANGED <<sent, hubVars>>

NextOrder ==
    \/ (\E throws \in BOOLEAN : ObsAccept(throws) /\ UNCHANGED <<clientVars, pollerVars, wireVars, queuedVars, serverVars>>)
    \/ (\E throwers \in SUBSET hubWritable : ObsBroadcast(throwers) /\ UNCHANGED <<clientVars, pollerVars, wireVars, queuedVars, serverVars>>)
    \/ (\E k \in Observers : ObsReceive(k) /\ UNCHANGED <<clientVars, pollerVars, wireVars, queuedVars, serverVars>>)
    \/ (\E k \in Observers : WsClosing(k) /\ UNCHANGED <<clientVars, pollerVars, wireVars, obsVars, queuedVars, serverVars>>)

\* ---- BeadsRPCClient, the queued variant -----------------------------------------

QCalls == 1..MaxQueuedCalls

QueuedInit ==
    /\ qConnected = TRUE
    /\ pendingRequest = 0
    /\ requestQueue = <<>>
    /\ qTimers = {}
    /\ qAccepted = 0
    /\ qWritten = <<>>
    /\ qInFlight = {}
    /\ qOutcome = [c \in QCalls |-> "none"]
    /\ qAnswer = [c \in QCalls |-> 0]

\* The fields the request path works on, as one value.
QState ==
    [pending |-> pendingRequest, queue |-> requestQueue, timers |-> qTimers,
     written |-> qWritten, inFlight |-> qInFlight, outcome |-> qOutcome,
     answer |-> qAnswer]

\* The fields after the request path has run.
QBecomes(st) ==
    /\ pendingRequest' = st.pending
    /\ requestQueue' = st.queue
    /\ qTimers' = st.timers
    /\ qWritten' = st.written
    /\ qInFlight' = st.inFlight
    /\ qOutcome' = st.outcome
    /\ qAnswer' = st.answer

\* A promise settles once: resolve and reject after that are ignored.
qSettle(st, c, kind, by) ==
    IF st.outcome[c] = "pending"
        THEN [st EXCEPT !.outcome[c] = kind, !.answer[c] = by]
        ELSE st

\* sendRequest(request, resolve, reject)
sendRequest(st, c) ==
    IF ~qConnected
        THEN qSettle(st, c, "rejected", 0)
        ELSE [st EXCEPT !.written = Append(@, c),
                        !.inFlight = @ \cup {c},
                        !.timers = @ \cup {c},
                        !.pending = c]

\* processQueue()
processQueue(st) ==
    IF st.pending # 0 \/ st.queue = <<>>
        THEN st
        ELSE sendRequest([st EXCEPT !.queue = Tail(@)], Head(st.queue))

\* handleResponse(response), response being the daemon's answer to request r.
qHandleResponse(st, r, ok) ==
    IF st.pending = 0
        THEN st
        ELSE processQueue(qSettle([st EXCEPT !.timers = @ \ {st.pending}, !.pending = 0],
                                  st.pending, IF ok THEN "resolved" ELSE "rejected", r))

\* request(operation, args) while connected: the call is accepted, and sent at
\* once when the slot is free, else queued.
QRequest ==
    /\ qConnected
    /\ qAccepted < MaxQueuedCalls
    /\ qAccepted' = qAccepted + 1
    /\ LET c == qAccepted + 1
           st == [QState EXCEPT !.outcome[c] = "pending"]
       IN  QBecomes(IF st.pending = 0
                        THEN sendRequest(st, c)
                        ELSE [st EXCEPT !.queue = Append(@, c)])
    /\ UNCHANGED qConnected

\* The 'data' handler with the daemon's response to request r.
QResponse(r, ok) ==
    /\ qConnected
    /\ r \in qInFlight
    /\ QBecomes(qHandleResponse([QState EXCEPT !.inFlight = @ \ {r}], r, ok))
    /\ UNCHANGED <<qConnected, qAccepted>>

\* The timeout callback set by sendRequest for call c.
QTimeout(c) ==
    /\ c \in qTimers
    /\ LET st == [QState EXCEPT !.timers = @ \ {c}]
       IN  QBecomes(IF st.pending # 0
                        THEN processQueue(qSettle([st EXCEPT !.pending = 0], c, "rejected", 0))
                        ELSE st)
    /\ UNCHANGED <<qConnected, qAccepted>>

\* The socket's 'close' handler: the responses under way are lost with the socket.
QClose ==
    /\ qConnected
    /\ qConnected' = FALSE
    /\ qInFlight' = {}
    /\ UNCHANGED <<pendingRequest, requestQueue, qTimers, qAccepted, qWritten,
                   qOutcome, qAnswer>>

\* The 'connect' handler of a later socket, after attemptReconnect or connect().
QConnect ==
    /\ ~qConnected
    /\ qConnected' = TRUE
    /\ UNCHANGED <<pendingRequest, requestQueue, qTimers, qAccepted, qWritten,
                   qInFlight, qOutcome, qAnswer>>

RECURSIVE qRejectAll(_, _)
qRejectAll(st, cs) ==
    IF cs = <<>> THEN st ELSE qRejectAll(qSettle(st, Head(cs), "rejected", 0), Tail(cs))

\* disconnect()
QDisconnect ==
    /\ qConnected' = FALSE
    /\ LET st == [QState EXCEPT !.inFlight = {}]
           cleared == IF st.pending # 0
                          THEN qSettle([st EXCEPT !.timers = @ \ {st.pending}, !.pending = 0],
                                       st.pending, "rejected", 0)
                          ELSE st
       IN  QBecomes([qRejectAll(cleared, cleared.queue) EXCEPT !.queue = <<>>])
    /\ UNCHANGED qAccepted

NextQueued ==
    \/ (QRequest /\ UNCHANGED <<clientVars, pollerVars, hubVars, wireVars, obsVars, serverVars>>)
    \/ (\E r \in QCalls, ok \in BOOLEAN : QResponse(r, ok) /\ UNCHANGED <<clientVars, pollerVars, hubVars, wireVars, obsVars, serverVars>>)
    \/ (\E c \in QCalls : QTimeout(c) /\ UNCHANGED <<clientVars, pollerVars, hubVars, wireVars, obsVars, serverVars>>)
    \/ (QClose /\ UNCHANGED <<clientVars, pollerVars, hubVars, wireVars, obsVars, serverVars>>)
    \/ (QConnect /\ UNCHANGED <<clientVars, pollerVars, hubVars, wireVars, obsVars, serverVars>>)
    \/ (QDisconnect /\ UNCHANGED <<clientVars, pollerVars, hubVars, wireVars, obsVars, serverVars>>)

Init == ClientInit /\ PollerInit /\ HubInit /\ WireInit /\ ObsInit /\ QueuedInit /\ ServerInit

\* ---- the client under arbitrary callers and an arbitrary daemon -----------
NextClient ==
    \/ (WithinLiveBound /\ Connect /\ UNCHANGED <<pollerVars, hubVars, wireVars, obsVars, queuedVars, serverVars>>)
    \/ (WithinLiveBound /\ ReconnectTimerFire /\ UNCHANGED <<pollerVars, hubVars, wireVars, obsVars, queuedVars, serverVars>>)
    \/ (\E s \in Sockets : SocketConnect(s) /\ UNCHANGED <<pollerVars, hubVars, wireVars, obsVars, queuedVars, serverVars>>)
    \/ (\E s \in Sockets : SocketClose(s) /\ UNCHANGED <<pollerVars, hubVars, wireVars, obsVars, queuedVars, serverVars>>)
    \/ (\E s \in Sockets, r \in Responses : SocketData(s, r) /\ UNCHANGED <<pollerVars, hubVars, wireVars, obsVars, queuedVars, serverVars>>)
    \/ (RequestRejected /\ UNCHANGED <<pollerVars, hubVars, wireVars, obsVars, queuedVars, serverVars>>)
    \/ (Request /\ UNCHANGED <<pollerVars, hubVars, wireVars, obsVars, queuedVars, serverVars>>)
    \/ (\E c \in Calls : TimerFire(c) /\ UNCHANGED <<pollerVars, hubVars, wireVars, obsVars, queuedVars, serverVars>>)
    \/ (Disconnect /\ UNCHANGED <<pollerVars, hubVars, wireVars, obsVars, queuedVars, serverVars>>)
    \/ (Tick /\ UNCHANGED <<pollerVars, hubVars, wireVars, obsVars, queuedVars, serverVars>>)

SpecClient == Init /\ [][NextClient]_vars

\* ---- the poller over the client and a daemon that keeps the protocol ---------
\* The server starts the poller once the client has connected.
InitPoller ==
    /\ socket = 1
    /\ connected = TRUE
    /\ requestId = 0
    /\ pendingRequests = {}
    /\ reconnectTimer = 0
    /\ reconnectAttempts = 0
    /\ sockState = [s \in Sockets |-> IF s = 1 THEN "open" ELSE "unused"]
    /\ timer = [c \in Calls |-> "none"]
    /\ age = [c \in Calls |-> 0]
    /\ written = {}
    /\ outcome = [c \in Calls |-> NoCall]
    /\ settles = [c \in Calls |-> 0]
    /\ PollerInit
    /\ HubInit
    /\ ObsInit
    /\ QueuedInit
    /\ ServerInit
    /\ WireInit

\* The poller's daemon accepts every connection: only an established
\* connection is lost.
DaemonUp(s) == sockState[s] = "open"

NextPoller ==
    \/ (PollerStart /\ UNCHANGED <<hubVars, wireVars, obsVars, queuedVars, serverVars>>)
    \/ (IntervalFire /\ UNCHANGED <<hubVars, wireVars, obsVars, queuedVars, serverVars>>)
    \/ (PollerStop /\ UNCHANGED <<hubVars, wireVars, obsVars, queuedVars, serverVars>>)
    \/ (PollerReset /\ UNCHANGED <<hubVars, wireVars, obsVars, queuedVars, serverVars>>)
    \/ (DaemonMutate /\ UNCHANGED <<hubVars, wireVars, obsVars, queuedVars, serverVars>>)
    \/ (\E s \in Sockets, c \in Calls, ok \in BOOLEAN : DaemonAnswer(s, c, ok) /\ UNCHANGED <<hubVars, wireVars, obsVars, queuedVars, serverVars>>)
    \/ (\E c \in Calls : PollTimerFire(c) /\ UNCHANGED <<hubVars, wireVars, obsVars, queuedVars, serverVars>>)
    \/ (Tick /\ UNCHANGED <<pollerVars, hubVars, wireVars, obsVars, queuedVars, serverVars>>)
    \/ (\E s \in Sockets : DaemonUp(s) /\ SocketClose(s) /\ UNCHANGED <<pollerVars, hubVars, wireVars, obsVars, queuedVars, serverVars>>)
    \/ (\E s \in Sockets : SocketConnect(s) /\ UNCHANGED <<pollerVars, hubVars, wireVars, obsVars, queuedVars, serverVars>>)
    \/ (WithinLiveBound /\ ReconnectTimerFire /\ UNCHANGED <<pollerVars, hubVars, wireVars, obsVars, queuedVars, serverVars>>)

SpecPoller == InitPoller /\ [][NextPoller]_vars

\* ---- the connection alone: connect(), disconnect(), socket events, timers ------
NextConnection ==
    \/ (Connect /\ UNCHANGED <<pollerVars, hubVars, wireVars, obsVars, queuedVars, serverVars>>)
    \/ (ReconnectTimerFire /\ UNCHANGED <<pollerVars, hubVars, wireVars, obsVars, queuedVars, serverVars>>)
    \/ (\E s \in Sockets : SocketConnect(s) /\ UNCHANGED <<pollerVars, hubVars, wireVars, obsVars, queuedVars, serverVars>>)
    \/ (\E s \in Sockets : SocketClose(s) /\ UNCHANGED <<pollerVars, hubVars, wireVars, obsVars, queuedVars, serverVars>>)
    \/ (Disconnect /\ UNCHANGED <<pollerVars, hubVars, wireVars, obsVars, queuedVars, serverVars>>)

SpecConnection == Init /\ [][NextConnection]_vars

\* ---- BeadsRPCClient framing ----------------------------------------------------

\* Bytes on the stream: the id of a call, the two bytes of a two-byte UTF-8
\* character, a byte that starts no JSON value, and the newline.
IdByte(c) == ToString(c)
Bytes == {IdByte(c) : c \in Calls} \cup {"c3", "a9", "x", "nl"}

\* Buffer.toString(): UTF-8 decoding of one chunk. A complete two-byte
\* sequence is its character ("E"); a lead byte without its continuation byte
\* in the chunk, and a continuation byte without its lead byte, are U+FFFD ("?").
RECURSIVE toString(_)
toString(bytes) ==
    IF bytes = <<>> THEN <<>>
    ELSE IF Head(bytes) = "c3"
        THEN IF Len(bytes) >= 2 /\ bytes[2] = "a9"
                 THEN <<"E">> \o toString(Tail(Tail(bytes)))
                 ELSE <<"?">> \o toString(Tail(bytes))
    ELSE IF Head(bytes) = "a9"
        THEN <<"?">> \o toString(Tail(bytes))
    ELSE <<Head(bytes)>> \o toString(Tail(bytes))

\* text.split('\n'), the piece being collected in cur.
RECURSIVE split(_, _)
split(text, cur) ==
    IF text = <<>> THEN <<cur>>
    ELSE IF Head(text) = "nl" THEN <<cur>> \o split(Tail(text), <<>>)
    ELSE split(Tail(text), Append(cur, Head(text)))

\* The characters of a payload as one string.
RECURSIVE Join(_)
Join(chars) == IF chars = <<>> THEN "" ELSE Head(chars) \o Join(Tail(chars))

\* JSON.parse(line) succeeds: the line is a response object, here the id of a
\* call followed by the characters of its result.
parses(line) == line # <<>> /\ \E c \in Calls : line[1] = IdByte(c)

\* JSON.parse(line)
parse(line) ==
    [id |-> CHOOSE c \in Calls : line[1] = IdByte(c),
     kind |-> "result",
     val |-> Join(Tail(line))]

\* The responses of the lines that are not blank and parse, in order.
RECURSIVE Parsed(_)
Parsed(lines) ==
    IF lines = <<>> THEN <<>>
    ELSE (IF parses(Head(lines)) THEN <<parse(Head(lines))>> ELSE <<>>)
             \o Parsed(Tail(lines))

RECURSIVE linesUntilThrow(_)
linesUntilThrow(lines) ==
    IF lines = <<>> \/ (Head(lines) # <<>> /\ ~parses(Head(lines))) THEN <<>>
    ELSE <<Head(lines)>> \o linesUntilThrow(Tail(lines))

\* handleData: the lines the for loop gets to; a line that fails to parse is
\* caught inside the loop.
linesLooped(lines) == lines

\* handleResponse applied to each response in turn, from <<pendingRequests,
\* outcome, settles>> = st.
RECURSIVE handleResponses(_, _)
handleResponses(st, rs) ==
    IF rs = <<>> THEN st
    ELSE LET r == Head(rs)
             next == IF r.id \in st[1]
                         THEN <<st[1] \ {r.id},
                                SettleWith(st[2], r.id, "resolved", r.val),
                                [st[3] EXCEPT ![r.id] = @ + 1]>>
                         ELSE st
         IN  handleResponses(next, Tail(rs))

\* handleData(data) for the next n bytes of the stream.
handleData(n) ==
    LET text == buffer \o toString(SubSeq(stream, delivered + 1, delivered + n))
        pieces == split(text, <<>>)
        lines == SubSeq(pieces, 1, Len(pieces) - 1)
        rs == Parsed(linesLooped(lines))
        st == handleResponses(<<pendingRequests, outcome, settles>>, rs)
    IN  /\ buffer' = pieces[Len(pieces)]
        /\ handled' = handled \o rs
        /\ pendingRequests' = st[1]
        /\ outcome' = st[2]
        /\ settles' = st[3]

\* The socket's 'data' handler, for a chunk of n bytes.
SocketChunk(s, n) ==
    /\ sockState[s] = "open"
    /\ n \in 1..(Len(stream) - delivered)
    /\ handleData(n)
    /\ delivered' = delivered + n
    /\ UNCHANGED <<socket, connected, requestId, reconnectTimer, reconnectAttempts,
                   sockState, timer, age, written, daemonUp, stream, connNo>>

\* What the daemon may write: up to MaxLines lines, each ended by a newline,
\* then possibly the start of a further line.
WireLines == {<<IdByte(1)>>, <<IdByte(2), "c3", "a9">>, <<"x">>, <<>>}
WireTails == {<<>>, <<IdByte(1)>>}

RECURSIVE Flatten(_)
Flatten(ls) == IF ls = <<>> THEN <<>> ELSE Head(ls) \o <<"nl">> \o Flatten(Tail(ls))

ByteStreams ==
    {Flatten(ls) \o tl : ls \in UNION {[1..n -> WireLines] : n \in 0..MaxLines},
                         tl \in WireTails}

\* The client is connected, every call is pending, and the daemon's answer
\* stream is one of ByteStreams.
InitFraming ==
    /\ socket = 1
    /\ connected = TRUE
    /\ requestId = MaxCalls
    /\ pendingRequests = Calls
    /\ reconnectTimer = 0
    /\ reconnectAttempts = 0
    /\ sockState = [s \in Sockets |-> IF s = 1 THEN "open" ELSE "unused"]
    /\ timer = [c \in Calls |-> "armed"]
    /\ age = [c \in Calls |-> 0]
    /\ written = Calls
    /\ outcome = [c \in Calls |-> Unsettled]
    /\ settles = [c \in Calls |-> 0]
    /\ PollerInit
    /\ HubInit
    /\ ObsInit
    /\ QueuedInit
    /\ ServerInit
    /\ daemonUp = TRUE
    /\ stream \in ByteStreams
    /\ delivered = 0
    /\ connNo = 1
    /\ buffer = <<>>
    /\ handled = <<>>

NextFraming ==
    \E s \in Sockets, n \in 1..(MaxLines * 4 + 1) :
        SocketChunk(s, n) /\ UNCHANGED <<pollerVars, hubVars, obsVars, queuedVars, serverVars>>

SpecFraming == InitFraming /\ [][NextFraming]_vars

\* ---- framing across connections ----------------------------------------------

\* connect(): this.buffer as the new socket's 'connect' handler leaves it.
bufferOnConnect == buffer

\* What the daemon writes first on a later connection: one complete message.
FirstMessages == {Flatten(<<l>>) : l \in WireLines}

\* The 'connect' handler of a later socket: the daemon writes on the new
\* connection; handled restarts with it.
CarryConnect(s) ==
    /\ connNo < MaxConnections
    /\ SocketConnect(s)
    /\ connNo' = connNo + 1
    /\ stream' \in FirstMessages
    /\ delivered' = 0
    /\ handled' = <<>>
    /\ buffer' = bufferOnConnect
    /\ UNCHANGED <<daemonUp, pollerVars, hubVars, obsVars, queuedVars, serverVars>>

\* The connection is lost, or disconnect() and connect() are called, while
\* a further connection can follow.
NextCarry ==
    \/ \E s \in Sockets, n \in 1..(MaxLines * 4 + 1) :
           SocketChunk(s, n) /\ UNCHANGED <<pollerVars, hubVars, obsVars, queuedVars, serverVars>>
    \/ (\E s \in Sockets : connNo < MaxConnections /\ sockState[s] \in {"open", "destroyed"} /\ SocketClose(s) /\ UNCHANGED <<pollerVars, hubVars, wireVars, obsVars, queuedVars, serverVars>>)
    \/ (WithinLiveBound /\ ReconnectTimerFire /\ UNCHANGED <<pollerVars, hubVars, wireVars, obsVars, queuedVars, serverVars>>)
    \/ (connNo < MaxConnections /\ connected /\ Disconnect /\ UNCHANGED <<pollerVars, hubVars, wireVars, obsVars, queuedVars, serverVars>>)
    \/ (WithinLiveBound /\ ~connected /\ Connect /\ UNCHANGED <<pollerVars, hubVars, wireVars, obsVars, queuedVars, serverVars>>)
    \/ \E s \in Sockets : CarryConnect(s)

SpecCarry == InitFraming /\ [][NextCarry]_vars

\* ---- automatic reconnection against a daemon that stops and starts -----------
\* The server has called connect() once; the attempt is in progress.
InitReconnect ==
    /\ socket = 1
    /\ connected = FALSE
    /\ requestId = 0
    /\ pendingRequests = {}
    /\ reconnectTimer = 0
    /\ reconnectAttempts = 0
    /\ sockState = [s \in Sockets |-> IF s = 1 THEN "connecting" ELSE "unused"]
    /\ timer = [c \in Calls |-> "none"]
    /\ age = [c \in Calls |-> 0]
    /\ written = {}
    /\ outcome = [c \in Calls |-> NoCall]
    /\ settles = [c \in Calls |-> 0]
    /\ PollerInit
    /\ HubInit
    /\ ObsInit
    /\ QueuedInit
    /\ ServerInit
    /\ daemonUp \in BOOLEAN
    /\ stream = <<>>
    /\ delivered = 0
    /\ connNo = 1
    /\ buffer = <<>>
    /\ handled = <<>>

\* The daemon stops: connection attempts fail and open connections are lost.
DaemonStop ==
    /\ daemonUp
    /\ daemonUp' = FALSE
    /\ UNCHANGED <<clientVars, pollerVars, hubVars, stream, delivered, connNo, buffer, handled,
                   obsVars, queuedVars, serverVars>>

\* The daemon starts again.
DaemonStart ==
    /\ ~daemonUp
    /\ daemonUp' = TRUE
    /\ UNCHANGED <<clientVars, pollerVars, hubVars, stream, delivered, connNo, buffer, handled,
                   obsVars, queuedVars, serverVars>>

\* A connection attempt succeeds while the daemon is up.
Established(s) == daemonUp /\ SocketConnect(s) /\ UNCHANGED <<pollerVars, hubVars, wireVars, obsVars, queuedVars, serverVars>>

\* An attempt fails, or a connection is lost, while the daemon is down.
Lost(s) == ~daemonUp /\ SocketClose(s) /\ UNCHANGED <<pollerVars, hubVars, wireVars, obsVars, queuedVars, serverVars>>

Retry == ReconnectTimerFire /\ UNCHANGED <<pollerVars, hubVars, wireVars, obsVars, queuedVars, serverVars>>

NextReconnect ==
    \/ DaemonStop
    \/ DaemonStart
    \/ \E s \in Sockets : Established(s)
    \/ \E s \in Sockets : Lost(s)
    \/ Retry
    \/ (Connect /\ UNCHANGED <<pollerVars, hubVars, wireVars, obsVars, queuedVars, serverVars>>)

\* Timers fire and socket events are delivered.
FairSpecReconnect ==
    /\ InitReconnect /\ [][NextReconnect]_vars
    /\ WF_vars(Retry)
    /\ \A s \in Sockets : WF_vars(Established(s))
    /\ \A s \in Sockets : WF_vars(Lost(s))

\* ---- the hub alone: observers, the sweep and broadcast() ----------------------
SpecHub == Init /\ [][NextHub]_vars

\* ---- the hub's sends as the observers receive them -------------------------------
SpecOrder == Init /\ [][NextOrder]_vars

\* ---- the hub with observers that answer every ping -----------------------------

\* handleConnection; the greeting is a 'ping' the observer has to answer.
KeepAccept(throws) ==
    /\ HubAccept(throws)
    /\ out' = Framed(0)
    /\ UNCHANGED <<sent, inbox>>

\* WebSocketService.handleMessage: the observer receives a 'ping' and sends
\* a 'pong', which the hub's 'message' handler gets.
KeepPong(k) ==
    /\ out[k] # <<>>
    /\ WsMessage(k, "pong")
    /\ out' = [out EXCEPT ![k] = Tail(@)]
    /\ UNCHANGED <<sent, inbox>>

\* The sweep, once every ping sent before it has been answered; its sends
\* do not throw.
KeepSweep ==
    /\ \A k \in Observers : out[k] = <<>>
    /\ HubSweep({})
    /\ out' = Framed(0)
    /\ UNCHANGED <<sent, inbox>>

NextKeepalive ==
    \/ (\E throws \in BOOLEAN : KeepAccept(throws) /\ UNCHANGED <<clientVars, pollerVars, wireVars, queuedVars, serverVars>>)
    \/ (\E k \in Observers : KeepPong(k) /\ UNCHANGED <<clientVars, pollerVars, wireVars, queuedVars, serverVars>>)
    \/ (KeepSweep /\ UNCHANGED <<clientVars, pollerVars, wireVars, queuedVars, serverVars>>)
    \/ (HubTick /\ UNCHANGED <<clientVars, pollerVars, wireVars, obsVars, queuedVars, serverVars>>)

SpecKeepalive == Init /\ [][NextKeepalive]_vars

\* ---- the queued client under arbitrary callers and an arbitrary daemon ----------
SpecQueued == Init /\ [][NextQueued]_vars

\* Timers fire.
FairSpecQueued ==
    /\ Init /\ [][NextQueued]_vars
    /\ \A c \in QCalls :
         WF_vars(QTimeout(c) /\ UNCHANGED <<clientVars, pollerVars, hubVars, wireVars, obsVars, serverVars>>)

\* ---- startServer: the poller's events wired to the hub -------------------------

serverListensToEach(event) == event.type \in {"mutations", "mutation"}

\* mutationPoller.on('mutations', ...): the events that have a listener.
serverListens(event) == event.type = "mutations"

\* The events of one poll that reach a listener, in order.
RECURSIVE Heard(_)
Heard(events) ==
    IF events = <<>> THEN <<>>
    ELSE (IF serverListens(Head(events)) THEN <<Head(events)>> ELSE <<>>)
             \o Heard(Tail(events))

\* The listener: wsServer.broadcast({ type: 'mutation', data: mutations, timestamp }),
\* once per event heard; lastSend keeps the first message and counts the copies.
serverBroadcasts(events, throwers) ==
    [broadcast(Message("mutation", FALSE, Heard(events)[1].data), throwers)
        EXCEPT !.copies = Len(Heard(events))]

\* The daemon answers a poll's request; the poll's events run their listeners.
ServerPollAnswer(s, c, ok, throwers) ==
    /\ DaemonAnswer(s, c, ok)
    /\ IF c \in pendingRequests /\ Heard(pollLog'.events) # <<>>
           THEN /\ lastSend' = serverBroadcasts(pollLog'.events, throwers)
                /\ UNCHANGED <<clients, nextClientId, wsState, wsId, sweepIn, pingInterval, wss>>
           ELSE UNCHANGED hubVars
    /\ UNCHANGED <<wireVars, obsVars, queuedVars, serverVars>>

\* The setInterval callback, with the hub left alone.
ServerTick == IntervalFire /\ UNCHANGED <<hubVars, wireVars, obsVars, queuedVars, serverVars>>

NextServer ==
    \/ (PollerStart /\ UNCHANGED <<hubVars, wireVars, obsVars, queuedVars, serverVars>>)
    \/ ServerTick
    \/ (DaemonMutate /\ UNCHANGED <<hubVars, wireVars, obsVars, queuedVars, serverVars>>)
    \/ \E s \in Sockets, c \in Calls, ok \in BOOLEAN, throwers \in SUBSET hubWritable :
           ServerPollAnswer(s, c, ok, throwers)
    \/ (\E throws \in BOOLEAN : HubAccept(throws) /\ UNCHANGED <<clientVars, pollerVars, wireVars, obsVars, queuedVars, serverVars>>)
    \/ (\E k \in Observers : WsClosing(k) /\ UNCHANGED <<clientVars, pollerVars, wireVars, obsVars, queuedVars, serverVars>>)
    \/ (\E k \in Observers : WsClose(k) /\ UNCHANGED <<clientVars, pollerVars, wireVars, obsVars, queuedVars, serverVars>>)

\* The server after startup: client connected, hub initialized, poller created.
SpecServer == InitPoller /\ [][NextServer]_vars

\* ---- startServer against a daemon that is down when the server starts ---------

\* connect() has been called by initializeRPCClient and the daemon is down.
InitStartup ==
    /\ InitReconnect
    /\ daemonUp = FALSE

\* startServer: await initializeRPCClient(config) resolves when the first
\* socket connects (rpcConnected = true) and throws when it fails.
startupAfter(ok) ==
    IF startup = "awaiting" THEN (IF ok THEN "connected" ELSE "degraded") ELSE startup

StartupEstablished(s) ==
    /\ daemonUp
    /\ SocketConnect(s)
    /\ startup' = startupAfter(TRUE)
    /\ UNCHANGED <<pollerVars, hubVars, wireVars, obsVars, queuedVars>>

StartupLost(s) ==
    /\ ~daemonUp
    /\ SocketClose(s)
    /\ startup' = startupAfter(FALSE)
    /\ UNCHANGED <<pollerVars, hubVars, wireVars, obsVars, queuedVars>>

\* startServer: if (rpcConnected) mutationPoller.start()
StartupStartsPoller ==
    /\ startup = "connected"
    /\ PollerStart
    /\ startup' = "started"
    /\ UNCHANGED <<hubVars, wireVars, obsVars, queuedVars>>

StartupTick == IntervalFire /\ UNCHANGED <<hubVars, wireVars, obsVars, queuedVars, serverVars>>

\* The daemon is started at some point and stays up.
NextStartup ==
    \/ DaemonStart
    \/ \E s \in Sockets : StartupEstablished(s)
    \/ \E s \in Sockets : StartupLost(s)
    \/ Retry
    \/ StartupStartsPoller
    \/ StartupTick
    \/ (DaemonMutate /\ UNCHANGED <<hubVars, wireVars, obsVars, queuedVars, serverVars>>)
    \/ \E s \in Sockets, c \in Calls, ok \in BOOLEAN, throwers \in SUBSET hubWritable :
           ServerPollAnswer(s, c, ok, throwers)
    \/ (\E throws \in BOOLEAN : HubAccept(throws) /\ UNCHANGED <<clientVars, pollerVars, wireVars, obsVars, queuedVars, serverVars>>)

\* Timers fire, socket events are delivered and startServer runs on.
FairSpecStartup ==
    /\ InitStartup /\ [][NextStartup]_vars
    /\ WF_vars(Retry)
    /\ WF_vars(StartupStartsPoller)
    /\ WF_vars(StartupTick)
    /\ \A s \in Sockets : WF_vars(StartupEstablished(s))
    /\ \A s \in Sockets : WF_vars(StartupLost(s))

\* The client when timers eventually fire: time passes and a due timer runs.
FairSpecClient ==
    /\ SpecClient
    /\ WF_vars(Tick /\ UNCHANGED <<pollerVars, hubVars, wireVars, obsVars, queuedVars, serverVars>>)
    /\ \A c \in Calls : WF_vars(TimerFire(c) /\ UNCHANGED <<pollerVars, hubVars, wireVars, obsVars, queuedVars, serverVars>>)

\* ---- properties ---------------------------------------------------------------

Resolved(v) == [kind |-> "resolved", val |-> v]
Rejected(msg) == [kind |-> "rejected", val |-> msg]
SettledAs(r) == IF r.kind = "error" THEN Rejected(r.val) ELSE Resolved(r.val)
IsSettled(c) == outcome[c].kind \in {"resolved", "rejected"}

\* C1: whatever calls are pending and in whatever order responses arrive,
\* handling a response settles at most the call whose id it carries: that call,
\* if pending, is resolved with the response's result or rejected with its error
\* message, and every other call keeps its pending entry and its outcome.
C1_SettledByOwnResponse ==
    [][\A s \in Sockets, r \in Responses :
          SocketData(s, r) =>
            /\ r.id \in pendingRequests =>
                    /\ outcome'[r.id] = SettledAs(r)
                    /\ r.id \notin pendingRequests'
            /\ \A c \in Calls \ {r.id} :
                    /\ outcome'[c] = outcome[c]
                    /\ settles'[c] = settles[c]
                    /\ (c \in pendingRequests') = (c \in pendingRequests)]_vars

\* Call 2 has been resolved with its response while call 1, issued before it,
\* is still pending: the responses arrive out of order.
C1_Witness ==
    /\ outcome[2] = Resolved("r1")
    /\ 1 \in pendingRequests
    /\ outcome[1] = Unsettled

\* C2: while the client has no socket or is not connected, request() throws
\* 'Not connected to daemon', and a request() call writes nothing, creates no
\* pending entry, takes no id and arms no timer.
C2_NotConnectedRejects ==
    [][~(socket # 0 /\ connected) =>
          /\ requestThrows = NotConnectedMsg
          /\ (Request \/ RequestRejected) =>
                UNCHANGED <<written, pendingRequests, requestId, timer, age,
                            outcome, settles>>]_vars

\* The client is disconnected, so that request() throws, while a call of the
\* earlier connection is still pending.
C2_Witness ==
    /\ ~connected
    /\ requestThrows = NotConnectedMsg
    /\ pendingRequests # {}

C4_CloseRejectsPending ==
    [][\A s \in Sockets :
          (SocketClose(s) /\ connected) =>
              \A c \in pendingRequests : outcome'[c] = Rejected(ClientDisconnectedMsg)]_vars

\* C5: disconnect() rejects every call pending at that moment with
\* 'Client disconnected'.
C5_DisconnectRejectsPending ==
    [][Disconnect =>
          \A c \in pendingRequests : outcome'[c] = Rejected(ClientDisconnectedMsg)]_vars

\* C6: every call accepted by request() is eventually resolved or rejected.
C6_EveryCallSettles ==
    \A c \in Calls : (outcome[c].kind = "pending") ~> IsSettled(c)

\* C7: no call is settled more than once: the resolve/reject of a call is
\* invoked at most once, and once a call is settled no response (duplicate or
\* late) and no timer changes its outcome.
C7_SettledOnce ==
    [][\A c \in Calls :
          /\ settles'[c] <= 1
          /\ IsSettled(c) => (outcome'[c] = outcome[c] /\ settles'[c] = settles[c])]_vars

\* Call 1 was resolved by a response and its 30 s timer has fired since.
C7_Witness ==
    /\ outcome[1].kind = "resolved"
    /\ timer[1] = "fired"
    /\ settles[1] = 1

\* C8: when the timer of call A fires, every other call B keeps its pending
\* entry, its outcome and its timer; and a result response carrying the id of a
\* pending call resolves that call.
C8_TimeoutIndependent ==
    [][/\ \A a \in Calls :
            TimerFire(a) =>
                \A b \in Calls \ {a} :
                    /\ (b \in pendingRequests') = (b \in pendingRequests)
                    /\ outcome'[b] = outcome[b]
                    /\ settles'[b] = settles[b]
                    /\ timer'[b] = timer[b]
       /\ \A s \in Sockets, r \in Responses :
            (SocketData(s, r) /\ r.id \in pendingRequests /\ r.kind = "result")
                => outcome'[r.id] = Resolved(r.val)]_vars

\* Call 2 has timed out while call 1, issued before it, is still pending.
C8_Witness ==
    /\ outcome[2] = Rejected(RequestTimeoutMsg)
    /\ 1 \in pendingRequests
    /\ outcome[1] = Unsettled
    /\ timer[1] = "armed"

\* C9: at most one poll is in flight: no getMutations request is issued while
\* the request of an earlier poll is unanswered.
C9_OnePollInFlight == Cardinality(InFlightPolls) <= 1

\* C10: with a daemon that answers getMutations(since) with the records after
\* since, and reset() never called, no record is emitted twice, neither in
\* 'mutations' batches nor as 'mutation' events.
C10_NoRecordTwice ==
    ~wasReset => \A m \in MutationIds : batchEmits[m] <= 1 /\ singleEmits[m] <= 1

\* C20: the client owns at most one daemon socket that is connecting or
\* connected, whatever the interleaving of connect() calls, reconnect timer
\* fires, socket events and disconnect().
C20_OneDaemonSocket ==
    Cardinality({s \in Sockets : sockState[s] \in {"connecting", "open"}}) <= 1

\* ---- the poller's cursor and events ----------------------------------------

Max(a, b) == IF a >= b THEN a ELSE b

\* The step is the continuation of the poll awaiting call c, resumed by the
\* daemon's answer (ok: a result; else an error response).
PollAnswered(s, c, ok) == DaemonAnswer(s, c, ok) /\ c \in pendingRequests

\* The step emits nothing and leaves the cursor and the poller's state alone.
PollQuiet ==
    /\ pollLog'.events = <<>>
    /\ UNCHANGED <<lastEventId, batchEmits, singleEmits, isPolling, pollInterval>>

C12_EmitOrder ==
    [][ \A s \in Sockets, c \in Calls :
          (PollAnswered(s, c, TRUE) /\ MutationsSince(polls[c]) # {}) =>
              LET b == InOrder(MutationsSince(polls[c]))
                  n == Len(b)
                  e == pollLog'.events
              IN  /\ pollLog'.step = "emitted"
                  /\ lastEventId' = Max(lastEventId, b[n])
                  /\ Len(e) = n + 1
                  /\ \A i \in 1..(n + 1) : e[i].cursor = lastEventId'
                  /\ e[1].type = "mutations" /\ e[1].data = b
                  /\ \A i \in 1..n :
                       e[i + 1].type = "mutation" /\ e[i + 1].data = <<b[i]>> ]_vars

C12_Witness ==
    /\ pollLog.step = "emitted"
    /\ Len(pollLog.events) = 3
    /\ pollLog.events[1].data = <<1, 2>>

\* C13: a poll whose request returns no record, or fails (error response,
\* request timeout, client not connected), leaves the cursor unchanged, emits
\* nothing, and leaves the poller running with its interval armed.
C13_QuietPoll ==
    [][ /\ \A s \in Sockets, c \in Calls, ok \in BOOLEAN :
             (PollAnswered(s, c, ok) /\ (~ok \/ MutationsSince(polls[c]) = {}))
                 => PollQuiet
        /\ \A c \in Calls : (PollTimerFire(c) /\ c \in pendingRequests) => PollQuiet
        /\ (IntervalFire /\ requestThrows # "") => PollQuiet ]_vars

C13_Witness == pollLog.step = "failed" /\ isPolling /\ pollInterval

\* C14: an interval tick that finds the client not connected sends no request,
\* changes nothing in the poller or the client, emits nothing and raises no
\* error; a tick that finds the client connected issues a request.
C14_SkipWhenDisconnected ==
    [][ /\ (IntervalFire /\ ~connected) =>
              /\ pollLog' = PollRecord("skipped", <<>>)
              /\ UNCHANGED <<clientVars, pollInterval, lastEventId, isPolling, polls,
                             daemonLog, answered, batchEmits, singleEmits, wasReset>>
        /\ (IntervalFire /\ connected) =>
              /\ pollLog' = PollRecord("issued", <<>>)
              /\ requestId' = requestId + 1
              /\ polls'[requestId'] = lastEventId ]_vars

C14_Witness ==
    pollLog.step = "skipped" /\ ~connected /\ isPolling /\ pollInterval /\ requestId > 0

\* ---- the hub's observers ------------------------------------------------------

\* The socket of a client of the mapping.
InMapping(k) == \E id \in DOMAIN clients : clients[id].ws = k

\* Every client of the mapping that is not on connection k is still there, unchanged.
OthersKept(k) ==
    \A id \in DOMAIN clients :
        clients[id].ws # k => (id \in DOMAIN clients' /\ clients'[id] = clients[id])

\* C15: broadcast(message) delivers one copy to exactly the observers that are
\* in the mapping with an OPEN socket when it is called, except those whose
\* send throws: an exception on one observer does not stop delivery to the
\* others, and an observer removed from the mapping before the call gets nothing.
C15_BroadcastReaches ==
    [][ \A throwers \in SUBSET Observers :
          HubBroadcast(throwers) =>
              /\ lastSend'.msg.type = "mutation" /\ lastSend'.copies = 1
              /\ lastSend'.to = {k \in Observers : InMapping(k) /\ wsState[k] = "open"}
                                    \ throwers
              /\ UNCHANGED <<clients, wsState>> ]_vars

C15_Witness ==
    /\ lastSend.msg.type = "mutation" /\ lastSend.to = {2}
    /\ InMapping(1) /\ wsState[1] = "open"
    /\ InMapping(2)

\* C16: once every close event has been processed, getClientCount() is the
\* number of observers accepted minus the number that have disconnected.
C16_ClientCount ==
    (\A k \in Observers : wsState[k] \in {"none", "open", "closed"}) =>
        Cardinality(DOMAIN clients) =
            Cardinality({k \in Observers : wsState[k] # "none"})
                - Cardinality({k \in Observers : wsState[k] = "closed"})

C16_Witness ==
    /\ wsState = [k \in Observers |-> IF k = 1 THEN "closed" ELSE "open"]
    /\ Cardinality(DOMAIN clients) = MaxObservers - 1

\* C17: a 'close' event, an 'error' event and a liveness eviction of one
\* observer, in any combination and order, remove that observer's entry and
\* no other, and leave every other entry unchanged; an accepted observer gets
\* an identifier no observer had before.
C17_RemovesOnlyItsOwn ==
    [][ /\ \A k \in Observers :
              (WsClose(k) \/ WsError(k)) =>
                  /\ OthersKept(k)
                  /\ DOMAIN clients' = {id \in DOMAIN clients : clients[id].ws # k}
        /\ \A throwers \in SUBSET Observers :
              HubSweep(throwers) =>
                  /\ DOMAIN clients' \subseteq DOMAIN clients
                  /\ \A id \in DOMAIN clients :
                       clients[id].sinceLastPing <= 60000 =>
                           (id \in DOMAIN clients' /\ clients'[id] = clients[id])
        /\ \A throws \in BOOLEAN :
              HubAccept(throws) =>
                  /\ \A k \in Observers : OthersKept(k)
                  /\ \A j, k \in Observers :
                       (j # k /\ wsState'[j] # "none" /\ wsState'[k] # "none")
                           => wsId'[j] # wsId'[k] ]_vars

C17_Witness ==
    /\ wsState[1] = "closed" /\ ~InMapping(1)
    /\ wsState[2] = "open" /\ InMapping(2)
    /\ wsId[2] # wsId[1]

\* The clients a sweep evicts: those last refreshed more than 60000 ms ago.
Stale == {id \in DOMAIN clients : clients[id].sinceLastPing > 60000}

\* The sweep evicts exactly the stale clients, terminating their sockets, and
\* leaves every other client and every other socket as it was.
SweepEvicts ==
    /\ DOMAIN clients' = DOMAIN clients \ Stale
    /\ \A id \in Stale : wsState'[clients[id].ws] # "open"
    /\ \A id \in DOMAIN clients \ Stale : clients'[id] = clients[id]
    /\ \A k \in Observers :
         (\A id \in Stale : clients[id].ws # k) => wsState'[k] = wsState[k]
    /\ \A id \in DOMAIN clients' : clients'[id].sinceLastPing <= 60000
    /\ lastSend'.msg.type = "ping"
    /\ sweepIn' = 30000

\* C18 as stated: at each sweep every stale observer is terminated and
\* removed, and every other observer stays unchanged and is sent a 'ping'
\* (the send may throw).
C18_SweepPingsEveryOther ==
    [][ \A throwers \in SUBSET Observers :
          HubSweep(throwers) =>
              /\ SweepEvicts
              /\ \A id \in DOMAIN clients \ Stale :
                   clients[id].ws \in lastSend'.to \cup throwers ]_vars

\* C18, amended: at each sweep, 30000 ms after the previous one, every
\* observer last refreshed more than 60000 ms ago is terminated and removed;
\* every other observer stays in the mapping unchanged and is sent a 'ping'
\* if its socket is OPEN, which reaches it unless the send throws. An observer
\* that never sends 'pong' is thus gone after the first sweep that runs more
\* than 60000 ms after it connected.
C18_SweepPingsOpen ==
    [][ \A throwers \in SUBSET Observers :
          HubSweep(throwers) =>
              /\ SweepEvicts
              /\ lastSend'.to =
                   {clients[id].ws : id \in {i \in DOMAIN clients \ Stale :
                                                wsState[clients[i].ws] = "open"}}
                       \ throwers ]_vars

C18_Witness ==
    /\ lastSend.msg.type = "ping" /\ lastSend.to = {2}
    /\ wsState[1] = "closing" /\ ~InMapping(1)
    /\ InMapping(2)

\* C19: of the inbound messages only a 'pong' has an effect, which is to set
\* the sender's last-liveness time to now; a message of another type or a
\* payload that is not JSON leaves the sender in the mapping with its socket
\* and liveness time as they were, and no message touches another observer.
C19_OnlyPongRefreshes ==
    [][ \A k \in Observers, kind \in InboundKinds :
          WsMessage(k, kind) =>
              /\ wsState' = wsState
              /\ OthersKept(k)
              /\ DOMAIN clients' = DOMAIN clients
              /\ \A id \in DOMAIN clients :
                   clients[id].ws = k =>
                       clients'[id] =
                           IF kind = "pong"
                               THEN [ws |-> k, sinceLastPing |-> 0]
                               ELSE clients[id] ]_vars

C19_Witness ==
    /\ InMapping(1) /\ InMapping(2)
    /\ wsState[1] = "open"
    /\ clients[wsId[1]].sinceLastPing < clients[wsId[2]].sinceLastPing

\* ---- reconnection -------------------------------------------------------------

\* this.socket is null exactly from disconnect() (or construction) until the
\* next connect(), explicit or from the reconnect timer.
\* C21: after disconnect() the client arms no reconnect timer and makes no
\* connection attempt until an explicit connect(), whatever socket events
\* arrive after the call: while this.socket is null no reconnect timer is armed.
C21_DisconnectStopsReconnect == socket = 0 => reconnectTimer = 0

\* No automatic attempt is left: five were made, no timer is armed and no
\* socket is connecting or connected.
Exhausted ==
    /\ reconnectAttempts = 5
    /\ reconnectTimer = 0
    /\ \A s \in Sockets : sockState[s] \notin {"connecting", "open"}

\* C22: the attempt counter never exceeds 5, and once five consecutive
\* automatic attempts have failed the client arms no further timer and stays
\* disconnected until connect() is called explicitly.
C22_GivesUpAfterFive ==
    /\ [](reconnectAttempts <= 5)
    /\ [][(Exhausted /\ ~Connect) => (Exhausted' /\ ~connected')]_vars

C22_Witness == Exhausted /\ socket # 0 /\ ~connected

\* The delays of the first to the fifth consecutive automatic attempt.
BackoffMs == <<2000, 4000, 8000, 16000, 30000>>

\* C23: the timer armed for the n-th consecutive automatic attempt since the
\* last successful connection has delay min(1000 * 2^n, 30000) ms, that is
\* 2000, 4000, 8000, 16000, 30000 for n = 1..5; a successful connection sets
\* the counter to 0, so the next timer is 2000 ms again.
C23_BackoffDelays ==
    [][ /\ (reconnectTimer = 0 /\ reconnectTimer' # 0) =>
              /\ reconnectAttempts' = reconnectAttempts + 1
              /\ reconnectAttempts' \in 1..5
              /\ reconnectTimer' = BackoffMs[reconnectAttempts']
        /\ reconnectAttempts' # reconnectAttempts =>
              \/ reconnectTimer = 0 /\ reconnectTimer' # 0
              \/ (reconnectAttempts' = 0 /\ connected' /\ \E s \in Sockets : SocketConnect(s))
        /\ (\E s \in Sockets : SocketConnect(s)) => reconnectAttempts' = 0 ]_vars

C23_Witness == reconnectTimer = 30000 /\ reconnectAttempts = 5

\* An automatic attempt is still to come: the reconnect timer is armed or a
\* socket is connecting.
AttemptAhead ==
    reconnectTimer # 0 \/ \E s \in Sockets : sockState[s] = "connecting"

ReceivedLines ==
    LET pieces == split(toString(SubSeq(stream, 1, delivered)), <<>>)
    IN  SubSeq(pieces, 1, Len(pieces) - 1)

\* C25: the responses handled depend only on the characters received, not on
\* how the stream is cut into 'data' events: at any time they are the
\* responses of the complete lines received so far, in order, each once.
C25_ChunkingInvisible == handled = Parsed(ReceivedLines)

Ids(rs) == [i \in 1..Len(rs) |-> rs[i].id]

\* C26: a line that is not valid JSON settles no call and leaves the pending
\* map alone, and every well-formed line before and after it is handled: the
\* calls answered are those of the well-formed lines received, in order, and
\* exactly the calls so answered have left the pending map, settled once.
C26_BadLineDropped ==
    LET ids == Ids(Parsed(ReceivedLines))
        replied == {ids[i] : i \in 1..Len(ids)}
    IN  /\ Ids(handled) = ids
        /\ pendingRequests = Calls \ replied
        /\ \A c \in Calls : settles[c] = IF c \in replied THEN 1 ELSE 0
        /\ \A c \in Calls : (outcome[c].kind = "resolved") <=> (c \in replied)

C26_Witness ==
    /\ stream = <<IdByte(1), "nl", "x", "nl", IdByte(2), "c3", "a9", "nl">>
    /\ delivered = Len(stream)
    /\ Ids(handled) = <<1, 2>>
    /\ pendingRequests = Calls \ {1, 2}

\* ---- end to end -----------------------------------------------------------------

\* C27: each non-empty batch found by the poller results in exactly one hub
\* broadcast, of type 'mutation' with the batch as data, which reaches every
\* observer in the mapping with an OPEN socket (unless its send throws); the
\* per-record 'mutation' events cause no further broadcast, and nothing else
\* causes a broadcast.
C27_OneBroadcastPerBatch ==
    [][ /\ \A c \in pendingRequests :
             (polls[c] # -1 /\ MutationsSince(polls[c]) # {} /\ answered' # answered) =>
             \A s \in Sockets, throwers \in SUBSET hubWritable :
             ServerPollAnswer(s, c, TRUE, throwers) =>
                 /\ lastSend'.msg = Message("mutation", FALSE, InOrder(MutationsSince(polls[c])))
                 /\ lastSend'.copies = 1
                 /\ lastSend'.to =
                      {k \in Observers : InMapping(k) /\ wsState[k] = "open"} \ throwers
        /\ (lastSend' # lastSend /\ lastSend'.msg.type = "mutation") =>
             \E s \in Sockets, c \in Calls :
                 PollAnswered(s, c, TRUE) /\ MutationsSince(polls[c]) # {} ]_vars

C27_Witness ==
    /\ lastSend.msg.type = "mutation"
    /\ lastSend.msg.data = <<1, 2>>
    /\ lastSend.to = {1, 2}
    /\ Len(pollLog.events) = 3

\* C28: accepting an observer adds exactly one entry to the mapping and sends
\* it a greeting of type 'ping' with a timestamp, which reaches it unless the
\* send throws; no other message is sent to a socket before its greeting.
C28_GreetingFirst ==
    [][ /\ \A throws \in BOOLEAN :
             HubAccept(throws) =>
                 \E k \in Observers :
                     /\ wsState[k] = "none" /\ wsState'[k] = "open"
                     /\ ~InMapping(k)
                     /\ Cardinality(DOMAIN clients') = Cardinality(DOMAIN clients) + 1
                     /\ \A id \in DOMAIN clients' \ DOMAIN clients :
                          clients'[id] = [ws |-> k, sinceLastPing |-> 0]
                     /\ \A j \in Observers : OthersKept(j)
                     /\ lastSend'.msg.type = "ping" /\ lastSend'.msg.welcome
                     /\ lastSend'.msg.timestamp = "now"
                     /\ lastSend'.copies = 1
                     /\ lastSend'.to = IF throws THEN {} ELSE {k}
        /\ \A k \in lastSend'.to :
             wsState[k] = "none" => (lastSend'.msg.welcome /\ lastSend'.to = {k}) ]_vars

C28_Witness ==
    /\ lastSend.msg.welcome /\ lastSend.to = {2}
    /\ InMapping(1) /\ InMapping(2)

\* ---- start() and stop() ---------------------------------------------------------

\* One run of poll() up to its await: skipped when the client is not connected,
\* else exactly one getMutations request with the current cursor.
OnePoll ==
    IF ~connected THEN pollLog'.step = "skipped" /\ requestId' = requestId /\ polls' = polls
    ELSE IF requestThrows # "" THEN pollLog'.step = "failed" /\ polls' = polls
    ELSE /\ pollLog'.step = "issued"
         /\ requestId' = requestId + 1
         /\ polls' = [polls EXCEPT ![requestId'] = lastEventId]

\* C29: start() on a Stopped poller makes it Running, runs one poll at once
\* and arms exactly one interval timer; start() on a Running poller changes
\* nothing; there is never more than one interval timer.
C29_StartArmsOneTimer ==
    /\ [](timers <= 1)
    /\ [][ /\ ((PollerStart /\ ~isPolling) =>
                 (isPolling' /\ OnePoll /\ timers = 0 /\ timers' = 1 /\ pollInterval'))
            /\ ((PollerStart /\ isPolling) => UNCHANGED <<clientVars, pollerVars>>) ]_vars

C29_Witness == isPolling /\ timers = 1 /\ pollLog.step = "issued" /\ requestId = 2

\* C30: stop() cancels the interval timer and makes the poller Stopped, and
\* no tick runs a poll while it is Stopped; stop() on a Stopped poller
\* changes nothing.
C30_StopCancelsTimer ==
    [][ /\ (PollerStop => (timers' = 0 /\ ~pollInterval' /\ ~isPolling'))
        /\ ((PollerStop /\ ~isPolling) => UNCHANGED <<clientVars, pollerVars>>)
        /\ (IntervalFire => isPolling) ]_vars

C30_Witness == ~isPolling /\ timers = 0 /\ ~pollInterval /\ requestId = 1 /\ pollLog.step = "issued"

\* ---- connect() while connected ---------------------------------------------------

\* C31: connect() called while the client is connected resolves at once and
\* changes nothing: no new socket, and the pending calls, the reconnect
\* counter and timer and the connected flag are as before.
C31_ConnectWhileConnected ==
    [][ (Connect /\ socket # 0 /\ connected) =>
            (connectOutcome = "resolved" /\ UNCHANGED clientVars) ]_vars

C31_Witness ==
    /\ connected /\ socket = 2 /\ sockState[2] = "open"
    /\ CanConnect /\ connectOutcome = "resolved"

\* ---- close() on the hub ----------------------------------------------------------

\* What close() leaves of the hub: the mapping, the sockets, the timer, the listener.
HubState == <<clients, nextClientId, wsState, wsId, pingInterval, wss>>

\* C32: close() stops the sweep, starts closing every observer socket of the
\* mapping and empties the mapping; from then on the client count is 0 and
\* no ping is sent, whatever 'close' events arrive late; a second close()
\* changes nothing.
C32_CloseEmptiesHub ==
    /\ [][ /\ HubClose =>
                /\ ~pingInterval' /\ ~wss'
                /\ Cardinality(DOMAIN clients') = 0
                /\ \A k \in Observers : InMapping(k) => wsState'[k] # "open"
           /\ (HubClose /\ ~wss) => UNCHANGED HubState
           /\ ~wss => (lastSend'.msg.type # "ping" /\ ~wss') ]_vars
    /\ [](~wss => (Cardinality(DOMAIN clients) = 0 /\ ~pingInterval))

C32_Witness ==
    /\ ~wss /\ Cardinality(DOMAIN clients) = 0
    /\ wsState[1] = "closed" /\ wsState[2] = "closing"
    /\ sweepIn = 0

\* ---- the order of broadcasts at one observer ------------------------------------

\* The frames an observer has received and those still on its socket, oldest first.
Frames(k) == inbox[k] \o out[k]

C34_LateResponseDiscarded ==
    \A c \in QCalls : qAnswer[c] \in {0, c}

\* C38: every call the queued client accepted is eventually resolved or rejected.
C38_QueuedCallsSettle ==
    \A c \in QCalls : (qOutcome[c] = "pending") ~> (qOutcome[c] # "pending")

\* C40: the queued client writes requests in the order it accepted them, and
\* never writes one while an earlier accepted call waits in the queue.
C40_SentInAcceptedOrder ==
    /\ \A i, j \in 1..Len(qWritten) : i < j => qWritten[i] < qWritten[j]
    /\ \A i \in 1..Len(qWritten), j \in 1..Len(requestQueue) : qWritten[i] < requestQueue[j]

\* ---- a server started while the daemon was down ---------------------------------

\* C35: when the server started without the daemon and the client has since
\* connected by automatic reconnection, mutation polling runs (as long as the
\* client stays connected).
C35_PollsAfterLateConnect ==
    (startup = "degraded" /\ connected) ~> (isPolling \/ ~connected)

\* ---- the poller after stop() -----------------------------------------------------

\* C36: while the poller is Stopped it emits no 'mutations' or 'mutation'
\* event and its cursor changes only by reset().
C36_SilentAfterStop ==
    [][ (~isPolling /\ ~isPolling' /\ ~PollerReset) =>
            /\ lastEventId' = lastEventId
            /\ batchEmits' = batchEmits
            /\ singleEmits' = singleEmits ]_vars

\* ---- the receive buffer across connections ---------------------------------------

\* C37: on every connection the calls answered are those of the well-formed
\* lines received on that connection, in order: no characters left in the
\* buffer by an earlier connection are put before its first message.
C37_BufferPerConnection ==
    Ids(handled) = Ids(Parsed(ReceivedLines))

\* ---- observers that answer every ping --------------------------------------------

\* C39: an observer that answers every ping it is sent, the greeting
\* included, before the next sweep is never evicted: it stays in the mapping
\* with its socket open.
C39_PongKeepsAlive ==
    \A k \in Observers : wsState[k] # "none" => (wsState[k] = "open" /\ InMapping(k))

C39_Witness ==
    /\ lastSend.msg.type = "ping" /\ ~lastSend.msg.welcome
    /\ lastSend.to = {1, 2}
    /\ clients[1].sinceLastPing = PingIntervalMs

====
